---------------------------- MODULE Spec2Model ----------------------------
(***************************************************************************)
(* RemoteStorage.IndexedDB (src/src/indexeddb.js): the local node store,   *)
(* its directory index, the revision interface and the change log.         *)
(*                                                                         *)
(* IndexedDB runs the transactions of one object store one after the other *)
(* in the order they were created, and the requests of a transaction in    *)
(* the order they were placed.  A request's onsuccess callback may place   *)
(* further requests; the transaction completes when none is left, and it   *)
(* aborts (rolling every write back) on a storage failure or when a        *)
(* callback throws.  The model keeps one queue of transactions per object  *)
(* store and steps it one request callback at a time.                      *)
(*                                                                         *)
(* A path is the sequence of its characters, so that the regular           *)
(* expression of addToParent/removeFromParent, the substr() prefix test    *)
(* and the key order of the cursor are computed on characters.             *)
(***************************************************************************)
EXTENDS Integers, Sequences, FiniteSets, TLC

\* ------------------------------------------------------------------ bounds
\* API calls made in one behaviour.
MaxCalls == 2

\* ------------------------------------------------------------------- paths
Root    == <<"/">>
DirA    == <<"/", "a", "/">>
DirAB   == <<"/", "a", "/", "b", "/">>
DocAx   == <<"/", "a", "/", "x">>
DocAy   == <<"/", "a", "/", "y">>
DocABx  == <<"/", "a", "/", "b", "/", "x">>
DocA    == <<"/", "a">>
DocB    == <<"/", "b">>

DocPaths  == {DocAx, DocAy, DocABx}
DirPaths  == {Root, DirA, DirAB}
AllPaths  == DocPaths \cup DirPaths \cup {DocA, DocB}

\* JavaScript's undefined, for a property that is not set.
Undef == "undefined"
\* A value the structured clone of IDBObjectStore.put cannot copy (a function).
Uncloneable == "function(){}"

Bodies       == {"hello", "world", Uncloneable}
ContentTypes == {"text/plain", "text/html"}
Revisions    == {"r1", "r2"}

Cloneable(v) == v # Uncloneable

\* UTF-16 code unit of a character: the order of IndexedDB string keys.
Code(c) ==
  CASE c = "/" -> 47
    [] c = "a" -> 97
    [] c = "b" -> 98
    [] c = "x" -> 120
    [] c = "y" -> 121

\* path[path.length - 1] == '/'
IsDirPath(p) == Len(p) > 0 /\ p[Len(p)] = "/"

\* path.match(/^(.*\/)([^\/]+\/?)$/): the basename is a non-empty run of
\* characters other than "/", with an optional "/" after it, at the end of
\* the path; the dirname is all that is before it and ends with "/".
Match(p) ==
  LET n    == Len(p)
      core == IF IsDirPath(p) THEN n - 1 ELSE n
      cut  == IF \E i \in 1..core : p[i] = "/"
              THEN CHOOSE i \in 1..core :
                     p[i] = "/" /\ \A j \in (i+1)..core : p[j] # "/"
              ELSE 0
  IN  IF core >= 1 /\ cut >= 1 /\ cut < core
      THEN [ok |-> TRUE, dirname |-> SubSeq(p, 1, cut),
            basename |-> SubSeq(p, cut + 1, n)]
      ELSE [ok |-> FALSE, dirname |-> <<>>, basename |-> <<>>]

\* ------------------------------------------------------------------- nodes
\* A node of the 'nodes' store.  On a document node `body` is the payload; on
\* a directory node the source keeps the maps of child names in `body` and
\* `cached`: they are maps["body"] and maps["cached"] here (the set of the
\* names that are present), so that node[key][basename] is node.maps[key].
NoMaps == [body |-> {}, cached |-> {}]

makeNode(path) ==
  [path |-> path, body |-> Undef, contentType |->
     IF IsDirPath(path) THEN "application/json" ELSE Undef,
   revision |-> Undef, maps |-> NoMaps]

keepDirNode(node) ==
  node.maps["body"] # {} \/ node.maps["cached"] # {}

\* The object stores are functions from the keys that are present.
StorePut(store, node) ==
  [k \in DOMAIN store \cup {node.path} |->
     IF k = node.path THEN node ELSE store[k]]

StoreDelete(store, key) ==
  [k \in DOMAIN store \ {key} |-> store[k]]

\* An IDBRequest result: <<value>>, or <<>> for undefined.
StoreGet(store, key) ==
  IF key \in DOMAIN store THEN <<store[key]>> ELSE <<>>

\* ---------------------------------------------------------------- requests
\* A request placed on the transaction, with the callback set as its
\* onsuccess: cb names the function of the source that holds the callback.
NoCb == [name |-> "none", path |-> <<>>, key |-> "", rev |-> Undef]

GetReq(key, cb)    == [op |-> "get", key |-> key, node |-> makeNode(key), cb |-> cb]
PutReq(node, cb)   == [op |-> "put", key |-> node.path, node |-> node, cb |-> cb]
DeleteReq(key, cb) == [op |-> "delete", key |-> key, node |-> makeNode(key), cb |-> cb]

Cb(name, path, key) == [name |-> name, path |-> path, key |-> key, rev |-> Undef]

\* What running a callback yields: the requests it places, whether it threw
\* out of the callback (which aborts the transaction), and the transaction's
\* local variables as it leaves them.
Placed(reqs, tx) == [reqs |-> reqs, threw |-> FALSE, tx |-> tx]
Threw(tx)        == [reqs |-> <<>>, threw |-> TRUE, tx |-> tx]

addToParent(path, key) ==
  LET parts == Match(path)
  IN  IF parts.ok
      THEN << GetReq(parts.dirname, Cb("addToParent.get", path, key)) >>
      ELSE <<>>

\* nodes.get(dirname).onsuccess of addToParent
addToParentGot(cb, result) ==
  LET parts == Match(cb.path)
      node  == IF result # <<>> THEN result[1] ELSE makeNode(parts.dirname)
      added == [node EXCEPT !.maps[cb.key] = @ \cup {parts.basename}]
  IN  << PutReq(added, Cb("addToParent.put", cb.path, cb.key)) >>

\* addToParent as it would be if it stopped at the folder of the path.
addToParentStopsAtFolder(cb) == <<>>

\* nodes.put(node).onsuccess of addToParent
addToParentStored(cb) ==
  LET parts == Match(cb.path)
  IN  IF parts.dirname # Root
      THEN addToParent(parts.dirname, cb.key)
      ELSE <<>>

removeFromParent(path, key) ==
  LET parts == Match(path)
  IN  IF parts.ok
      THEN << GetReq(parts.dirname, Cb("removeFromParent.get", path, key)) >>
      ELSE <<>>

\* nodes.get(dirname).onsuccess of removeFromParent: `delete node[key][basename]`
\* throws a TypeError when the directory node is not stored (node is
\* undefined); nothing catches it.
removeFromParentGot(cb, result, tx) ==
  LET parts   == Match(cb.path)
      node    == result[1]
      removed == [node EXCEPT !.maps[cb.key] = @ \ {parts.basename}]
  IN  IF result = <<>>
      THEN Threw(tx)
      ELSE IF keepDirNode(removed)
           THEN Placed(<< PutReq(removed, NoCb) >>, tx)
           ELSE Placed(<< DeleteReq(removed.path,
                           Cb("removeFromParent.delete", cb.path, cb.key)) >>, tx)

\* nodes.delete(node.path).onsuccess of removeFromParent
removeFromParentDeleted(cb) ==
  LET parts == Match(cb.path)
  IN  IF parts.dirname # Root
      THEN removeFromParent(parts.dirname, cb.key)
      ELSE <<>>


\* ------------------------------------------------------------ transactions
VARIABLES
  nodes,    \* the committed 'nodes' object store
  work,     \* 'nodes' as the running transaction has written it so far
  changes,  \* the committed 'changes' object store
  cwork,    \* 'changes' as the running transaction has written it so far
  txq,      \* transactions on 'nodes', oldest first; the head is running
  cq,       \* transactions on 'changes', oldest first; the head is running
  heap,     \* the `attributes` objects handed to setConflict, by call
  caps,     \* the resolve capabilities that conflict events have delivered
  ncalls,   \* API calls made so far
  out,      \* what the last step did: events emitted, promise settled
  db,       \* this.db of the instance: the connection it holds
  opens,    \* the calls of RS.IndexedDB.open, oldest first
  cleans,   \* the calls of RS.IndexedDB.clean whose request is pending
  ajax      \* the requests getputdelete has handed to platform.ajax

vars == <<nodes, work, changes, cwork, txq, cq, heap, caps, ncalls, out,
          db, opens, cleans, ajax>>

\* The state of the database handle and of the calls that open and remove
\* the database.
lifecycle == <<db, opens, cleans>>

\* this.db: an IDBDatabase connection, open or closed, or undefined.
Connection(n) == [state |-> "open", conn |-> n]
Closed(c)     == [c EXCEPT !.state = "closed"]
NoDb          == [state |-> "undefined", conn |-> 0]

\* A transaction on 'nodes' with the local variables of the call that made it.
NodeTx(kind, path, body, contentType, incoming, revs, reqs) ==
  [kind |-> kind, path |-> path, body |-> body, contentType |-> contentType,
   incoming |-> incoming, revs |-> revs, reqs |-> reqs,
   oldNode |-> <<>>,        \* put, delete: var oldNode
   node |-> <<>>,           \* get: var node
   rev |-> Undef,           \* getRevision: var rev
   done |-> FALSE,          \* put: typeof(done) !== 'undefined'
   promise |-> "pending",
   seq |-> 0]               \* the number of the call, in the order of issue

\* A transaction on 'changes'.  attributes: the keys the call names (has),
\* the action, and the heap object given as `conflict`.  by: the function
\* that called; event: the conflict event setConflict built.
ChangeTx(kind, path, attributes, by, event, reqs) ==
  [kind |-> kind, path |-> path, attributes |-> attributes, by |-> by,
   event |-> event, reqs |-> reqs,
   found |-> <<>>,          \* changesBelow: var changes
   promise |-> "pending"]

ActionAttr(action) == [has |-> {"action"}, action |-> action, obj |-> 0]
ConflictAttr(obj)  == [has |-> {"conflict"}, action |-> Undef, obj |-> obj]
NoAttr             == [has |-> {}, action |-> Undef, obj |-> 0]

\* this._recordChange(path, attributes): the transaction it opens.
RecordChangeTx(path, attributes, by, event) ==
  ChangeTx("_recordChange", path, attributes, by, event,
           << GetReq(path, Cb("_recordChange.get", path, "")) >>)

EmptyStore == [k \in {} |-> k]

NoTx == NodeTx("none", <<>>, Undef, Undef, FALSE, <<>>, <<>>)

\* What a step reports.
Out(step, store, tx, emitted, settled) ==
  [step |-> step, store |-> store, tx |-> tx, emitted |-> emitted,
   settled |-> settled, arg |-> Undef]

Settled(state, value) == << [state |-> state, value |-> value] >>

ChangeEvent(path, incoming, oldValue, newValue) ==
  [type |-> "change", path |-> path,
   origin |-> IF incoming THEN "remote" ELSE "window",
   oldValue |-> oldValue, newValue |-> newValue]

\* ------------------------------------------------------- callbacks, 'nodes'
\* put as it would be if it stored the node without its content type.
putGotUntyped(tx, result) ==
  Placed(<< PutReq([path |-> tx.path, body |-> tx.body, contentType |-> Undef,
                    revision |-> Undef, maps |-> NoMaps],
                   Cb("put.put", tx.path, "body")) >>,
         [tx EXCEPT !.oldNode = result])

\* nodes.get(path).onsuccess of put: nodes.put(node) throws a DataCloneError
\* for a body that cannot be cloned; the catch rejects the promise and the
\* transaction goes on.
putGot(tx, result) ==
  LET node == [path |-> tx.path, body |-> tx.body,
               contentType |-> tx.contentType,
               revision |-> Undef, maps |-> NoMaps]
      seen == [tx EXCEPT !.oldNode = result]
  IN  IF Cloneable(tx.body)
      THEN Placed(<< PutReq(node, Cb("put.put", tx.path, "body")) >>, seen)
      ELSE Placed(<<>>, [seen EXCEPT !.done = TRUE,
                                     !.promise = IF tx.done THEN @ ELSE "rejected"])

\* nodes.get(path).onsuccess of delete
deleteGot(tx, result) ==
  Placed(<< DeleteReq(tx.path, Cb("delete.delete", tx.path, "body")) >>,
         [tx EXCEPT !.oldNode = result])

\* nodes.get(rev[0]).onsuccess of setRevisions
setRevisionsGot(cb, result, tx) ==
  LET node == IF result # <<>> THEN result[1] ELSE makeNode(cb.path)
      set  == [node EXCEPT !.revision = cb.rev]
  IN  Placed(<< PutReq(set, Cb("setRevisions.put", cb.path, "cached")) >>, tx)

\* The onsuccess callback of a request of a transaction on 'nodes'.
NodeCallback(tx, req, result) ==
  CASE req.cb.name = "put.get"        -> putGot(tx, result)
    [] req.cb.name = "put.put"        -> Placed(addToParent(req.cb.path, "body"), tx)
    [] req.cb.name = "delete.get"     -> deleteGot(tx, result)
    [] req.cb.name = "delete.delete"  ->
         Placed(removeFromParent(req.cb.path, "body"), tx)
    [] req.cb.name = "setRevisions.get" -> setRevisionsGot(req.cb, result, tx)
    [] req.cb.name = "setRevisions.put" ->
         Placed(addToParent(req.cb.path, "cached"), tx)
    [] req.cb.name = "addToParent.get" -> Placed(addToParentGot(req.cb, result), tx)
    [] req.cb.name = "addToParent.put" -> Placed(addToParentStored(req.cb), tx)
    [] req.cb.name = "removeFromParent.get" ->
         removeFromParentGot(req.cb, result, tx)
    [] req.cb.name = "removeFromParent.delete" ->
         Placed(removeFromParentDeleted(req.cb), tx)
    [] req.cb.name = "get.get"        -> Placed(<<>>, [tx EXCEPT !.node = result])
    [] req.cb.name = "getRevision.get" ->
         Placed(<<>>, [tx EXCEPT !.rev =
                         IF result # <<>> THEN result[1].revision ELSE @])
    [] OTHER -> Placed(<<>>, tx)

\* The store after a request, and the request's result.
Execute(store, req) ==
  CASE req.op = "get"    -> [store |-> store, result |-> StoreGet(store, req.key)]
    [] req.op = "put"    -> [store |-> StorePut(store, req.node), result |-> <<>>]
    [] req.op = "delete" -> [store |-> StoreDelete(store, req.key), result |-> <<>>]

\* ------------------------------------------------------------ calls, 'nodes'
CanCall == ncalls < MaxCalls

\* A call as it would be if its transaction were run before the ones that
\* were created earlier and are waiting.
CallJumpsQueue(tx) ==
  /\ CanCall
  /\ ncalls' = ncalls + 1
  /\ txq' = << [tx EXCEPT !.seq = ncalls + 1] >> \o txq
  /\ out' = Out("call", "nodes", [tx EXCEPT !.seq = ncalls + 1], <<>>, <<>>)
  /\ UNCHANGED <<lifecycle, ajax, nodes, work, changes, cwork, cq, heap, caps>>

\* this.db.transaction(...) throws on a connection that was closed
\* (InvalidStateError) and when this.db is undefined (TypeError).
Call(tx) ==
  /\ CanCall
  /\ ncalls' = ncalls + 1
  /\ IF db.state = "open"
     THEN /\ txq' = Append(txq, [tx EXCEPT !.seq = ncalls + 1])
          /\ out' = Out("call", "nodes", [tx EXCEPT !.seq = ncalls + 1], <<>>, <<>>)
     ELSE /\ txq' = txq
          /\ out' = Out("throw", "nodes", tx, <<>>, <<>>)
  /\ UNCHANGED <<lifecycle, ajax, nodes, work, changes, cwork, cq, heap, caps>>

\* put(path, body, contentType, incoming); a directory path throws before
\* the transaction is opened.
Put(path, body, contentType, incoming) ==
  /\ ~IsDirPath(path)
  /\ Call(NodeTx("put", path, body, contentType, incoming, <<>>,
                 << GetReq(path, Cb("put.get", path, "body")) >>))

\* delete(path, incoming)
Delete(path, incoming) ==
  /\ ~IsDirPath(path)
  /\ Call(NodeTx("delete", path, Undef, Undef, incoming, <<>>,
                 << GetReq(path, Cb("delete.get", path, "body")) >>))

\* setRevisions(revs): one get per pair, placed by the forEach.
setRevisionsReqs(revs) ==
  [i \in 1..Len(revs) |->
     GetReq(revs[i][1], [name |-> "setRevisions.get", path |-> revs[i][1],
                         key |-> "cached", rev |-> revs[i][2]])]

SetRevisions(revs) ==
  Call(NodeTx("setRevisions", <<>>, Undef, Undef, FALSE, revs,
              setRevisionsReqs(revs)))

\* get(path)
Get(path) ==
  Call(NodeTx("get", path, Undef, Undef, FALSE, <<>>,
              << GetReq(path, Cb("get.get", path, "")) >>))

\* getRevision(path)
GetRevision(path) ==
  Call(NodeTx("getRevision", path, Undef, Undef, FALSE, <<>>,
              << GetReq(path, Cb("getRevision.get", path, "")) >>))

\* ------------------------------------------------------------ steps, 'nodes'
\* transaction.onerror = transaction.onabort = promise.reject
NodesAborted(tx, step) ==
  /\ work' = nodes
  /\ txq' = Tail(txq)
  /\ out' = Out(step, "nodes", [tx EXCEPT !.promise = "rejected"], <<>>,
                IF tx.promise = "pending" THEN Settled("rejected", Undef) ELSE <<>>)
  /\ UNCHANGED <<lifecycle, ajax, nodes, changes, cwork, cq, heap, caps, ncalls>>

\* The next request of the running transaction and its onsuccess callback.
NodesRequest ==
  /\ txq # <<>>
  /\ Head(txq).reqs # <<>>
  /\ LET tx   == Head(txq)
         req  == Head(tx.reqs)
         exec == Execute(work, req)
         ran  == NodeCallback(tx, req, exec.result)
         next == [ran.tx EXCEPT !.reqs = Tail(tx.reqs) \o ran.reqs]
     IN  IF ran.threw
         THEN NodesAborted(tx, "throw")
         ELSE /\ work' = exec.store
              /\ txq' = <<next>> \o Tail(txq)
              /\ out' = Out("request", "nodes", next, <<>>,
                            IF next.promise # tx.promise
                            THEN Settled(next.promise, Undef) ELSE <<>>)
              /\ UNCHANGED <<lifecycle, ajax, nodes, changes, cwork, cq, heap, caps, ncalls>>

\* A storage failure aborts the running transaction.
NodesAbort ==
  /\ txq # <<>>
  /\ NodesAborted(Head(txq), "abort")

\* oncomplete of put as it would be if it recorded the change whatever
\* `incoming` is.
putCompleteAlwaysRecords(tx) ==
  [emitted  |-> << ChangeEvent(tx.path, tx.incoming,
                     IF tx.oldNode # <<>> THEN tx.oldNode[1].body ELSE Undef,
                     tx.body) >>,
   recorded |-> << RecordChangeTx(tx.path, ActionAttr("PUT"), "put", <<>>) >>,
   settled  |-> IF ~tx.done THEN Settled("fulfilled", [status |-> 200]) ELSE <<>>]

\* transaction.oncomplete of put
putComplete(tx) ==
  [emitted  |-> << ChangeEvent(tx.path, tx.incoming,
                     IF tx.oldNode # <<>> THEN tx.oldNode[1].body ELSE Undef,
                     tx.body) >>,
   recorded |-> IF ~tx.incoming
                THEN << RecordChangeTx(tx.path, ActionAttr("PUT"), "put", <<>>) >>
                ELSE <<>>,
   settled  |-> IF ~tx.done THEN Settled("fulfilled", [status |-> 200]) ELSE <<>>]

\* transaction.oncomplete of delete
deleteComplete(tx) ==
  [emitted  |-> IF tx.oldNode # <<>>
                THEN << ChangeEvent(tx.path, tx.incoming, tx.oldNode[1].body, Undef) >>
                ELSE <<>>,
   recorded |-> IF ~tx.incoming
                THEN << RecordChangeTx(tx.path, ActionAttr("DELETE"), "delete", <<>>) >>
                ELSE <<>>,
   settled  |-> Settled("fulfilled", [status |-> 200])]

\* transaction.oncomplete of setRevisions
setRevisionsComplete(tx) ==
  [emitted |-> <<>>, recorded |-> <<>>, settled |-> Settled("fulfilled", Undef)]

\* transaction.oncomplete of get
getComplete(tx) ==
  [emitted |-> <<>>, recorded |-> <<>>,
   settled |-> IF tx.node # <<>>
               THEN Settled("fulfilled",
                      [status |-> 200, body |-> tx.node[1].body,
                       contentType |-> tx.node[1].contentType,
                       revision |-> tx.node[1].revision])
               ELSE Settled("fulfilled", [status |-> 404])]

\* transaction.oncomplete of getRevision
getRevisionComplete(tx) ==
  [emitted |-> <<>>, recorded |-> <<>>, settled |-> Settled("fulfilled", tx.rev)]

NodeOnComplete(tx) ==
  CASE tx.kind = "put"          -> putComplete(tx)
    [] tx.kind = "delete"       -> deleteComplete(tx)
    [] tx.kind = "setRevisions" -> setRevisionsComplete(tx)
    [] tx.kind = "get"          -> getComplete(tx)
    [] tx.kind = "getRevision"  -> getRevisionComplete(tx)

\* The running transaction has no request left: it commits, and its
\* oncomplete handler runs.  On a connection that was closed since,
\* _recordChange throws out of the handler, before the promise is fulfilled.
NodesComplete ==
  /\ txq # <<>>
  /\ Head(txq).reqs = <<>>
  /\ LET tx   == Head(txq)
         on   == NodeOnComplete(tx)
         dead == db.state # "open" /\ on.recorded # <<>>
     IN  /\ nodes' = work
         /\ txq' = Tail(txq)
         /\ cq' = IF dead THEN cq ELSE cq \o on.recorded
         /\ out' = Out("complete", "nodes", tx, on.emitted,
                       IF dead THEN <<>> ELSE on.settled)
         /\ UNCHANGED <<lifecycle, ajax, work, changes, cwork, heap, caps, ncalls>>

\* ------------------------------------------------------------ the change log
\* The order of IndexedDB string keys: by code unit, a proper prefix first.
KeyLess(a, b) ==
  \E i \in 1..(Len(a) + 1) :
    /\ \A j \in 1..(i - 1) : j <= Len(b) /\ a[j] = b[j]
    /\ \/ i = Len(a) + 1 /\ i <= Len(b)
       \/ i <= Len(a) /\ i <= Len(b) /\ Code(a[i]) < Code(b[i])

\* cursor.key.substr(0, pl) == path
HasPrefix(key, path) ==
  LET pl == Len(path)
  IN  SubSeq(key, 1, IF pl < Len(key) THEN pl ELSE Len(key)) = path

\* The first key of the store in a range, as a cursor's result: <<key>>, or
\* <<>> when the cursor has run past the last one.
FirstKey(keys) ==
  IF keys = {} THEN <<>>
  ELSE << CHOOSE k \in keys : \A o \in keys : o = k \/ KeyLess(k, o) >>

\* openCursor(IDBKeyRange.lowerBound(path)), and cursor.continue()
CursorReq(op, key, path) ==
  [op |-> op, key |-> key, node |-> makeNode(key),
   cb |-> Cb("changesBelow.cursor", path, "")]

\* The cursor as it would be if it were opened without the lower bound.
ChangesExecuteUnbounded(store, req) ==
  CASE req.op = "openCursor" ->
         [store |-> store, result |-> FirstKey(DOMAIN store)]
    [] req.op = "continue" ->
         [store |-> store,
          result |-> FirstKey({k \in DOMAIN store : KeyLess(req.key, k)})]
    [] OTHER -> Execute(store, req)

ChangesExecute(store, req) ==
  CASE req.op = "openCursor" ->
         [store |-> store,
          result |-> FirstKey({k \in DOMAIN store : k = req.key \/ KeyLess(req.key, k)})]
    [] req.op = "continue" ->
         [store |-> store,
          result |-> FirstKey({k \in DOMAIN store : KeyLess(req.key, k)})]
    [] OTHER -> Execute(store, req)

NoChange(path) == [path |-> path, action |-> Undef, conflict |-> <<>>]

\* _recordChange as it would be if it wrote a new record over the stored one.
recordChangeGotOverwrites(tx, result, objects) ==
  Placed(<< PutReq([path     |-> tx.path,
                    action   |-> tx.attributes.action,
                    conflict |-> IF "conflict" \in tx.attributes.has
                                 THEN << objects[tx.attributes.obj] >>
                                 ELSE <<>>], NoCb) >>, tx)

\* changes.get(path).onsuccess of _recordChange: the stored record, or {},
\* with every key of `attributes` written over it.  changes.put copies the
\* conflict object as it is at this moment.
recordChangeGot(tx, result, objects) ==
  LET change == IF result # <<>> THEN result[1] ELSE NoChange(tx.path)
      merged == [path     |-> tx.path,
                 action   |-> IF "action" \in tx.attributes.has
                              THEN tx.attributes.action ELSE change.action,
                 conflict |-> IF "conflict" \in tx.attributes.has
                              THEN << objects[tx.attributes.obj] >>
                              ELSE change.conflict]
  IN  Placed(<< PutReq(merged, NoCb) >>, tx)

\* cursorReq.onsuccess of changesBelow
changesBelowCursor(tx, result, store) ==
  IF result # <<>> /\ HasPrefix(result[1], tx.path)
  THEN Placed(<< CursorReq("continue", result[1], tx.path) >>,
              [tx EXCEPT !.found = Append(@, store[result[1]])])
  ELSE Placed(<<>>, tx)

ChangeCallback(tx, req, result, store, objects) ==
  CASE req.cb.name = "_recordChange.get"   -> recordChangeGot(tx, result, objects)
    [] req.cb.name = "changesBelow.cursor" -> changesBelowCursor(tx, result, store)
    [] OTHER -> Placed(<<>>, tx)

CallChanges(tx, objects, arg) ==
  /\ CanCall
  /\ heap' = objects
  /\ ncalls' = ncalls + 1
  /\ IF db.state = "open"
     THEN /\ cq' = Append(cq, tx)
          /\ out' = [Out("call", "changes", tx, <<>>, <<>>) EXCEPT !.arg = arg]
     ELSE /\ cq' = cq
          /\ out' = [Out("throw", "changes", tx, <<>>, <<>>) EXCEPT !.arg = arg]
  /\ UNCHANGED <<lifecycle, ajax, nodes, work, changes, cwork, txq, caps>>

\* clearChange(path)
ClearChange(path) ==
  CallChanges(ChangeTx("clearChange", path, NoAttr, "clearChange", <<>>,
                       << DeleteReq(path, NoCb) >>), heap, Undef)

\* changesBelow(path)
ChangesBelow(path) ==
  CallChanges(ChangeTx("changesBelow", path, NoAttr, "changesBelow", <<>>,
                       << CursorReq("openCursor", path, path) >>), heap, Undef)

\* The conflict event setConflict builds: the path, every attribute as it is
\* at the call, and resolve, which holds the attributes object and the path.
ConflictEvent(path, attributes, obj) ==
  [type |-> "conflict", path |-> path, attributes |-> attributes,
   resolve |-> [obj |-> obj, path |-> path]]

\* setConflict as it would be if it emitted the event before the record is
\* committed.
SetConflictEmitsFirst(path, attributes) ==
  LET obj   == Len(heap) + 1
      event == ConflictEvent(path, attributes, obj)
      tx    == RecordChangeTx(path, ConflictAttr(obj), "setConflict", <<>>)
  IN  /\ CanCall
      /\ cq' = Append(cq, tx)
      /\ heap' = Append(heap, attributes)
      /\ caps' = caps \cup {event.resolve}
      /\ ncalls' = ncalls + 1
      /\ out' = Out("call", "changes", tx, <<event>>, <<>>)
      /\ UNCHANGED <<lifecycle, ajax, nodes, work, changes, cwork, txq>>

\* setConflict(path, attributes)
SetConflict(path, attributes) ==
  LET obj == Len(heap) + 1
  IN  CallChanges(RecordChangeTx(path, ConflictAttr(obj), "setConflict",
                                 << ConflictEvent(path, attributes, obj) >>),
                  Append(heap, attributes), Undef)

\* The test of resolve as it would be if it let every value through.
AnyResolution(resolution) == resolution = resolution

ValidResolution(resolution) == resolution = "remote" \/ resolution = "local"

\* event.resolve(resolution), by a subscriber that received the event.
Resolve(cap, resolution) ==
  /\ cap \in caps
  /\ IF ValidResolution(resolution)
     THEN CallChanges(RecordChangeTx(cap.path, ConflictAttr(cap.obj), "resolve", <<>>),
                      [heap EXCEPT ![cap.obj].resolution = resolution], resolution)
     ELSE /\ CanCall
          /\ ncalls' = ncalls + 1
          /\ out' = [Out("throw", "changes",
                         ChangeTx("resolve", cap.path, ConflictAttr(cap.obj),
                                  "resolve", <<>>, <<>>), <<>>, <<>>)
                        EXCEPT !.arg = resolution]
          /\ UNCHANGED <<lifecycle, ajax, nodes, work, changes, cwork, txq, cq, heap, caps>>

\* --------------------------------------------------------- steps, 'changes'
ChangesRequest ==
  /\ cq # <<>>
  /\ Head(cq).reqs # <<>>
  /\ LET tx   == Head(cq)
         req  == Head(tx.reqs)
         exec == ChangesExecute(cwork, req)
         ran  == ChangeCallback(tx, req, exec.result, cwork, heap)
         next == [ran.tx EXCEPT !.reqs = Tail(tx.reqs) \o ran.reqs]
     IN  /\ cwork' = exec.store
         /\ cq' = <<next>> \o Tail(cq)
         /\ out' = Out("request", "changes", next, <<>>, <<>>)
         /\ UNCHANGED <<lifecycle, ajax, nodes, work, changes, txq, heap, caps, ncalls>>

\* transaction.oncomplete: _recordChange fulfils its promise, and the
\* callback setConflict passed to then() emits the conflict event;
\* clearChange fulfils; changesBelow fulfils with the changes it collected.
ChangeOnComplete(tx) ==
  [emitted |-> IF tx.kind = "_recordChange" /\ tx.by = "setConflict"
               THEN tx.event ELSE <<>>,
   settled |-> IF tx.kind = "changesBelow"
               THEN Settled("fulfilled", tx.found)
               ELSE Settled("fulfilled", Undef)]

ChangesComplete ==
  /\ cq # <<>>
  /\ Head(cq).reqs = <<>>
  /\ LET tx == Head(cq)
         on == ChangeOnComplete(tx)
     IN  /\ changes' = cwork
         /\ cq' = Tail(cq)
         /\ caps' = caps \cup {on.emitted[i].resolve : i \in 1..Len(on.emitted)}
         /\ out' = Out("complete", "changes", tx, on.emitted, on.settled)
         /\ UNCHANGED <<lifecycle, ajax, nodes, work, cwork, txq, heap, ncalls>>

\* A storage failure aborts the running transaction.  Only _recordChange
\* sets onabort (to promise.reject); the promises of clearChange and
\* changesBelow stay pending.
ChangesAbort ==
  /\ cq # <<>>
  /\ LET tx == Head(cq)
     IN  /\ cwork' = changes
         /\ cq' = Tail(cq)
         /\ out' = Out("abort", "changes", tx, <<>>,
                       IF tx.kind = "_recordChange"
                       THEN Settled("rejected", Undef) ELSE <<>>)
         /\ UNCHANGED <<lifecycle, ajax, nodes, work, changes, txq, heap, caps, ncalls>>

\* ------------------------------------------------- open, clean, reset, init
\* The first argument of open's callback: null, the error of the open
\* request (a DOMException with a name), or the timeout message (a string,
\* which has no name).
NullErr        == [type |-> "null", name |-> Undef]
DomError(name) == [type |-> "DOMException", name |-> name]
TimeoutErr     == [type |-> "string", name |-> Undef]

\* The names of the errors an open request fails with: the first is what
\* Firefox raises in private browsing mode.
OpenErrorNames == {"InvalidStateError", "UnknownError"}

\* A call of RS.IndexedDB.open by `by`: the timer it set, the request it
\* made, and what it has passed to its callback so far.
OpenCall(by) ==
  [by |-> by, timer |-> "armed", request |-> "pending", reported |-> <<>>]

\* The connection a successful open request returns.
NewConn == 2 + Cardinality({i \in 1..Len(opens) : opens[i].request = "success"})

\* The callback _rs_init passes to open: function(err, db).
rsInitOpened(err, conn) ==
  [db      |-> db,
   threw   |-> FALSE,
   emitted |-> IF err.type # "null" /\ err.name = "InvalidStateError"
               THEN << [type |-> "error"] >> ELSE <<>>,
   settled |-> IF err.type = "null" THEN Settled("fulfilled", Undef) ELSE <<>>]

\* The callback reset passes to open: function(other), which open calls
\* with the error first.  `other.db` throws a TypeError when other is null;
\* it is undefined on an error and on the timeout message.
resetOpened(err, conn) ==
  IF err.type = "null"
  THEN [db |-> db, threw |-> TRUE, emitted |-> <<>>, settled |-> <<>>]
  ELSE [db |-> NoDb, threw |-> FALSE, emitted |-> <<>>,
        settled |-> Settled("called", NoDb)]

\* The callback of a caller that opens the database itself.
callerOpened(err, conn) ==
  [db |-> db, threw |-> FALSE, emitted |-> <<>>,
   settled |-> Settled("called", [err |-> err, conn |-> conn])]

OpenCallback(by, err, conn) ==
  CASE by = "_rs_init" -> rsInitOpened(err, conn)
    [] by = "reset"    -> resetOpened(err, conn)
    [] OTHER           -> callerOpened(err, conn)

\* open's callback is called with (err, conn) for the i-th call.
OpenReports(i, step, call, err, conn) ==
  LET ran == OpenCallback(call.by, err, conn)
      tx  == [NoTx EXCEPT !.kind = call.by]
  IN  /\ opens' = [opens EXCEPT ![i] =
                     [call EXCEPT !.reported =
                        Append(@, [err |-> err, conn |-> conn])]]
      /\ db' = ran.db
      /\ out' = [Out(step, "open", IF ran.threw
                                   THEN [tx EXCEPT !.promise = "threw"] ELSE tx,
                     ran.emitted, ran.settled) EXCEPT !.arg = err.type]
      /\ UNCHANGED <<nodes, work, changes, cwork, txq, cq, heap, caps, ncalls,
                     cleans, ajax>>

\* RS.IndexedDB.open(name, callback)
Open(by) ==
  /\ CanCall
  /\ ncalls' = ncalls + 1
  /\ opens' = Append(opens, OpenCall(by))
  /\ out' = Out("call", "open", [NoTx EXCEPT !.kind = by], <<>>, <<>>)
  /\ UNCHANGED <<nodes, work, changes, cwork, txq, cq, heap, caps, db, cleans, ajax>>

\* RS.IndexedDB._rs_init(remoteStorage)
RsInit == Open("_rs_init")

\* The timer of open: nothing but dbOpen.onerror and dbOpen.onsuccess clears
\* it, and it does not cancel the request.
OpenTimeout(i) ==
  /\ i \in 1..Len(opens)
  /\ opens[i].timer = "armed"
  /\ OpenReports(i, "timeout", [opens[i] EXCEPT !.timer = "fired"], TimeoutErr, 0)

\* dbOpen.onsuccess
OpenSuccess(i) ==
  /\ i \in 1..Len(opens)
  /\ opens[i].request = "pending"
  /\ OpenReports(i, "success",
                 [opens[i] EXCEPT !.request = "success",
                                  !.timer = IF @ = "armed" THEN "cleared" ELSE @],
                 NullErr, NewConn)

\* dbOpen.onerror
OpenError(i, name) ==
  /\ i \in 1..Len(opens)
  /\ opens[i].request = "pending"
  /\ OpenReports(i, "error",
                 [opens[i] EXCEPT !.request = "error",
                                  !.timer = IF @ = "armed" THEN "cleared" ELSE @],
                 DomError(name), 0)

\* reset(callback): this.db.name, this.db.close(), then clean.
Reset ==
  /\ CanCall
  /\ ncalls' = ncalls + 1
  /\ IF db.state = "undefined"
     THEN /\ out' = Out("throw", "open", [NoTx EXCEPT !.kind = "reset"], <<>>, <<>>)
          /\ UNCHANGED <<db, cleans>>
     ELSE /\ db' = Closed(db)
          /\ cleans' = Append(cleans, "reset")
          /\ out' = Out("call", "open", [NoTx EXCEPT !.kind = "reset"], <<>>, <<>>)
  /\ UNCHANGED <<nodes, work, changes, cwork, txq, cq, heap, caps, opens, ajax>>

\* req.onsuccess of clean: indexedDB.deleteDatabase has removed the database,
\* which it does once every connection is closed and their transactions are
\* finished; reset's callback then opens the database again.
CleanSuccess ==
  /\ cleans # <<>>
  /\ db.state # "open"
  /\ txq = <<>> /\ cq = <<>>
  /\ \A i \in 1..Len(opens) : opens[i].request # "success"
  /\ cleans' = Tail(cleans)
  /\ nodes' = EmptyStore /\ work' = EmptyStore
  /\ changes' = EmptyStore /\ cwork' = EmptyStore
  /\ opens' = Append(opens, OpenCall(Head(cleans)))
  /\ out' = Out("cleaned", "open", [NoTx EXCEPT !.kind = Head(cleans)], <<>>, <<>>)
  /\ UNCHANGED <<txq, cq, heap, caps, ncalls, db, ajax>>

\* req.onerror of clean logs the failure; the callback is not called.
CleanError ==
  /\ cleans # <<>>
  /\ cleans' = Tail(cleans)
  /\ out' = Out("error", "open", [NoTx EXCEPT !.kind = Head(cleans)], <<>>, <<>>)
  /\ UNCHANGED <<nodes, work, changes, cwork, txq, cq, heap, caps, ncalls,
                 db, opens, ajax>>

\* ---------------------------------------- the transport (getputdelete.js)
\* What typeof and instanceof tell of a value handed to set.
ValueKinds == {"undefined", "string", "ArrayBuffer", "number", "object", "null"}

\* typeof(value) === 'string' || (typeof(value) === 'object' &&
\*                                value instanceof ArrayBuffer)
ValidPutValue(kind) == kind = "string" \/ kind = "ArrayBuffer"

defaultContentType == "application/octet-stream"

\* The object doCall hands to platform.ajax.  token and mimeType are Undef
\* when they are not given; deadLine is what the caller passed sixth.
PlatformObj(method, body, mimeType, token, deadLine) ==
  [method  |-> method,
   timeout |-> IF deadLine # Undef THEN deadLine ELSE "5000",
   authorization |-> IF token # Undef THEN <<"Bearer ", token>> ELSE <<>>,
   contentType |->
     IF mimeType # Undef
     THEN IF body = "ArrayBuffer" THEN <<mimeType, "; charset=binary">>
          ELSE <<mimeType>>
     ELSE <<>>,
   data    |-> IF method # "GET" THEN body ELSE Undef,
   promise |-> "pending",
   value   |-> Undef]

\* doCall(method, url, body, mimeType, token, deadLine): the request is
\* handed to platform.ajax.
doCall(method, body, mimeType, token, deadLine) ==
  Append(ajax, PlatformObj(method, body, mimeType, token, deadLine))

TransportCall(kind, value, mimeType, requests, reported) ==
  /\ CanCall
  /\ ncalls' = ncalls + 1
  /\ ajax' = requests
  /\ out' = Out("call", "transport",
                [NoTx EXCEPT !.kind = kind, !.body = value, !.contentType = mimeType],
                <<>>, reported)
  /\ UNCHANGED <<nodes, work, changes, cwork, txq, cq, heap, caps, lifecycle>>

\* get(url, token)
TransportGet(token) ==
  TransportCall("get", Undef, Undef, doCall("GET", "null", Undef, token, Undef), <<>>)

\* put(url, value, mimeType, token, cb): cb is called with the error for a
\* value that is not valid, and the function goes on to doCall, with a
\* function in the place of deadLine.
TransportPut(value, mimeType, token) ==
  TransportCall("set", value, mimeType,
                doCall("PUT", value, mimeType, token, "function"),
                IF ~ValidPutValue(value)
                THEN Settled("cb", "invalid value given to PUT") ELSE <<>>)

\* set(url, valueStr, mimeType, token, cb)
TransportSet(value, mimeType, token) ==
  IF value = "undefined"
  THEN TransportCall("set", value, mimeType,
                     doCall("DELETE", "null", Undef, token, "function"), <<>>)
  ELSE TransportPut(value, mimeType, token)

\* What the platform answers: the status, and on success the data with the
\* content-type header of the response.
Responses ==
  { [status |-> 200, header |-> <<>>, data |-> "text"],
    [status |-> 200, header |-> <<"application/json">>, data |-> "{}"],
    [status |-> 200, header |-> <<"application/json">>, data |-> "{"],
    [status |-> 200, header |-> <<"text/plain", "; charset=binary">>, data |-> "raw"],
    [status |-> 404, header |-> <<>>, data |-> Undef],
    [status |-> 401, header |-> <<>>, data |-> Undef],
    [status |-> 500, header |-> <<>>, data |-> Undef] }

\* The handlers doCall passes to then(): the data is turned into a buffer
\* for a binary charset and parsed for JSON (left as it is when it does not
\* parse); 404 fulfils with undefined, 401 fails with 'unauthorized'.
doCallAnswered(response) ==
  LET contentType == IF response.header # <<>> THEN response.header
                     ELSE <<defaultContentType>>
      mimeType    == contentType[1]
      data        == IF Len(contentType) > 1 THEN <<"buffer", response.data>>
                     ELSE IF mimeType = "application/json" /\ response.data = "{}"
                          THEN <<"object", response.data>>
                          ELSE <<"string", response.data>>
  IN  CASE response.status = 200 ->
             [promise |-> "fulfilled", value |-> <<data, mimeType>>]
        [] response.status = 404 ->
             [promise |-> "fulfilled", value |-> <<>>]
        [] response.status = 401 ->
             [promise |-> "failed", value |-> <<"unauthorized">>]
        [] OTHER ->
             [promise |-> "failed", value |-> <<response.status>>]

\* platform.ajax settles the promise of the i-th request.
AjaxAnswers(i, response) ==
  /\ i \in 1..Len(ajax)
  /\ ajax[i].promise = "pending"
  /\ LET on == doCallAnswered(response)
     IN  /\ ajax' = [ajax EXCEPT ![i].promise = on.promise, ![i].value = on.value]
         /\ out' = Out("answer", "transport", [NoTx EXCEPT !.kind = ajax[i].method],
                       <<>>, Settled(on.promise, on.value))
  /\ UNCHANGED <<nodes, work, changes, cwork, txq, cq, heap, caps, ncalls, lifecycle>>

\* ------------------------------------------------------------ specification
\* A database as RS.IndexedDB.open created it, with what 'changes' holds.
InitWith(stored) ==
  /\ nodes = EmptyStore
  /\ work = EmptyStore
  /\ changes = stored
  /\ cwork = stored
  /\ txq = <<>>
  /\ cq = <<>>
  /\ heap = <<>>
  /\ caps = {}
  /\ ncalls = 0
  /\ out = Out("init", "none", NoTx, <<>>, <<>>)
  /\ db = Connection(1)
  /\ opens = <<>>
  /\ cleans = <<>>
  /\ ajax = <<>>

Init == InitWith(EmptyStore)

\* What the calls of the specifications below are made with.
Payloads ==
  { [body |-> "hello", contentType |-> "text/plain"],
    [body |-> "world", contentType |-> "text/html"],
    [body |-> Uncloneable, contentType |-> "text/plain"] }

PutPaths == {DocAx, DocABx}
DeletePaths == {DocAx, DocAy, DocABx}

RevPairs == { <<DocAx, "r1">>, <<DirAB, "r2">> }

\* The batches of two pairs setRevisions is called with.
RevBatches == { << <<DocAx, "r1">>, <<DocAy, "r2">> >> }

ConflictAttrs ==
  { [localAction |-> "PUT", remoteAction |-> "DELETE", resolution |-> Undef],
    [localAction |-> "DELETE", remoteAction |-> "PUT", resolution |-> Undef] }

Resolutions == {"local", "remote", "bogus"}

QueryPaths == {Root, DirA, DocA, DocAx}

\* The node store: put, delete, the revisions and the reads, with the
\* change recording that put and delete start.
Next ==
  \/ \E p \in PutPaths, v \in Payloads, i \in BOOLEAN :
       Put(p, v.body, v.contentType, i)
  \/ \E p \in DeletePaths, i \in BOOLEAN : Delete(p, i)
  \/ \E rev \in RevPairs : SetRevisions(<<rev>>)
  \/ \E revs \in RevBatches : SetRevisions(revs)
  \/ Get(DocAx)
  \/ GetRevision(DocAx)
  \/ NodesRequest
  \/ NodesComplete
  \/ NodesAbort
  \/ ChangesRequest
  \/ ChangesComplete
  \/ ChangesAbort

Spec == Init /\ [][Next]_vars

\* The change log.  The database was used before: 'changes' starts with the
\* pending changes of earlier local puts and deletes, any of them.
ChangeKeys == {DocA, DocAx, DocAy, DocB}

PendingAction(key) == IF key \in {DocA, DocAy} THEN "DELETE" ELSE "PUT"

InitChanges ==
  \E keys \in SUBSET ChangeKeys :
    InitWith([k \in keys |->
                [path |-> k, action |-> PendingAction(k), conflict |-> <<>>]])

NextBelow ==
  \/ \E p \in QueryPaths : ChangesBelow(p)
  \/ \E p \in {DocAx, DocB} : ClearChange(p)
  \/ \E a \in ConflictAttrs : SetConflict(DocAy, a)
  \/ ChangesRequest
  \/ ChangesComplete
  \/ ChangesAbort

SpecBelow == InitChanges /\ [][NextBelow]_vars

\* The change log from an empty database: the changes local puts and
\* deletes record, the conflicts and their resolution.
NextChanges ==
  \/ \E v \in Payloads : Put(DocAx, v.body, v.contentType, FALSE)
  \/ Delete(DocAx, FALSE)
  \/ NodesRequest
  \/ NodesComplete
  \/ NodesAbort
  \/ ClearChange(DocAx)
  \/ \E p \in {DocAx, DocAy}, a \in ConflictAttrs : SetConflict(p, a)
  \/ \E c \in caps, r \in Resolutions : Resolve(c, r)
  \/ ChangesRequest
  \/ ChangesComplete
  \/ ChangesAbort

SpecChanges == Init /\ [][NextChanges]_vars

\* The database handle: a store in use is reset, and the database is opened
\* by _rs_init and by a caller of open.
NextLife ==
  \/ \E i \in BOOLEAN : Put(DocAx, "hello", "text/plain", i)
  \/ Get(DocAx)
  \/ NodesRequest
  \/ NodesComplete
  \/ ChangesRequest
  \/ ChangesComplete
  \/ Reset
  \/ CleanSuccess
  \/ CleanError
  \/ RsInit
  \/ Open("caller")
  \/ \E i \in 1..Len(opens) : OpenTimeout(i)
  \/ \E i \in 1..Len(opens) : OpenSuccess(i)
  \/ \E i \in 1..Len(opens), name \in OpenErrorNames : OpenError(i, name)

SpecLife == Init /\ [][NextLife]_vars

\* The transport.
MimeTypes == {Undef, "text/plain"}
Tokens    == {Undef, "token"}

NextTransport ==
  \/ \E v \in ValueKinds, m \in MimeTypes : TransportSet(v, m, "token")
  \/ \E t \in Tokens : TransportGet(t)
  \/ \E i \in 1..Len(ajax), r \in Responses : AjaxAnswers(i, r)

SpecTransport == Init /\ [][NextTransport]_vars

\* The order of the change log: local puts and deletes of one document,
\* issued without waiting, and the reads of the changes below it.
NextOrder ==
  \/ \E v \in Payloads : Put(DocAx, v.body, v.contentType, FALSE)
  \/ Delete(DocAx, FALSE)
  \/ \E p \in {DocAx, DirA} : ChangesBelow(p)
  \/ NodesRequest
  \/ NodesComplete
  \/ NodesAbort
  \/ ChangesRequest
  \/ ChangesComplete
  \/ ChangesAbort

SpecOrder == Init /\ [][NextOrder]_vars

\* ------------------------------------------------------------------ claims
\* The last step was `step` of a transaction of `kind` on 'nodes'.
NodeStep(kind, step) ==
  out'.store = "nodes" /\ out'.step = step /\ out'.tx.kind = kind

ChangeStep(kind, step) ==
  out'.store = "changes" /\ out'.step = step /\ out'.tx.kind = kind

\* The last step fulfilled the promise of the call.
Fulfilled == out'.settled # <<>> /\ out'.settled[1].state = "fulfilled"

\* What a store holds at a path: the content, the body, the revision.
Content(store, p) ==
  IF p \in DOMAIN store THEN << store[p].body, store[p].contentType >> ELSE <<>>

BodyOf(store, p) == IF p \in DOMAIN store THEN store[p].body ELSE Undef

RevisionOf(store, p) == IF p \in DOMAIN store THEN store[p].revision ELSE Undef

\* C1: once put(p, b, ct) has committed (its promise is fulfilled), the node
\* of p holds body b and content type ct; what is stored at a document path
\* changes only when a put or a delete on that path commits; and get(p)
\* answers 200 with the body and the content type stored at p (404 when
\* nothing is stored).
C1_Step ==
  /\ (NodeStep("put", "complete") /\ Fulfilled) =>
       Content(nodes', out'.tx.path) = << out'.tx.body, out'.tx.contentType >>
  /\ \A p \in DocPaths :
       (Content(nodes, p) # <<>> /\ Content(nodes', p) # Content(nodes, p)) =>
         /\ out'.tx.kind \in {"put", "delete"}
         /\ NodeStep(out'.tx.kind, "complete")
         /\ out'.tx.path = p
  /\ NodeStep("get", "complete") =>
       /\ Fulfilled
       /\ IF out'.tx.path \in DOMAIN nodes
          THEN /\ out'.settled[1].value.status = 200
               /\ << out'.settled[1].value.body,
                     out'.settled[1].value.contentType >>
                    = Content(nodes, out'.tx.path)
          ELSE out'.settled[1].value.status = 404

C1_PutThenGet == [][C1_Step]_vars

\* A get has answered 200 with the body and content type of an earlier put.
C1_Witness ==
  /\ out.step = "complete"
  /\ out.tx.kind = "get"
  /\ out.settled = Settled("fulfilled",
       [status |-> 200, body |-> "hello", contentType |-> "text/plain",
        revision |-> Undef])

\* C2: a put that commits leaves the revision of its node as it was: what
\* getRevision(p) returns is the same after the put as before it.
C2_PutKeepsRevision ==
  [][(NodeStep("put", "complete") /\ Fulfilled) =>
       RevisionOf(nodes', out'.tx.path) = RevisionOf(nodes, out'.tx.path)]_vars

\* C3: a delete of a document path that has no node, unless the storage
\* fails, is fulfilled and leaves the set of nodes as it was.
C3_DeleteAbsentSucceeds ==
  [][(/\ out'.store = "nodes"
      /\ out'.tx.kind = "delete"
      /\ out'.step \in {"complete", "throw"}
      /\ out'.tx.path \notin DOMAIN nodes) =>
       /\ out'.step = "complete"
       /\ Fulfilled
       /\ DOMAIN nodes' = DOMAIN nodes]_vars

\* C4: no step of a put or delete called with incoming = true touches the
\* change log, and its change event has origin "remote"; a put or delete
\* called with incoming = false that commits calls _recordChange for its path
\* with action PUT or DELETE, its change event does not have origin "remote",
\* and once that record is committed the Change of the path has that action.
C4_Step ==
  /\ (/\ out'.store = "nodes"
      /\ out'.tx.kind \in {"put", "delete"}
      /\ out'.tx.incoming) =>
       /\ cq' = cq /\ changes' = changes /\ cwork' = cwork
       /\ \A i \in 1..Len(out'.emitted) : out'.emitted[i].origin = "remote"
  /\ (/\ out'.store = "nodes"
      /\ out'.step = "complete"
      /\ out'.tx.kind \in {"put", "delete"}
      /\ ~out'.tx.incoming) =>
       /\ Len(cq') = Len(cq) + 1
       /\ cq'[Len(cq')].kind = "_recordChange"
       /\ cq'[Len(cq')].path = out'.tx.path
       /\ cq'[Len(cq')].attributes =
            ActionAttr(IF out'.tx.kind = "put" THEN "PUT" ELSE "DELETE")
       /\ \A i \in 1..Len(out'.emitted) : out'.emitted[i].origin # "remote"
  /\ (ChangeStep("_recordChange", "complete") /\ out'.tx.by \in {"put", "delete"}) =>
       /\ out'.tx.path \in DOMAIN changes'
       /\ changes'[out'.tx.path].action =
            (IF out'.tx.by = "put" THEN "PUT" ELSE "DELETE")

C4_IncomingDecides == [][C4_Step]_vars

\* The Change of a local put is committed, and an incoming put has
\* committed beside it without a Change of its own.
C4_Witness ==
  /\ out.step = "complete"
  /\ out.store = "nodes"
  /\ out.tx.kind = "put"
  /\ out.tx.incoming
  /\ out.emitted # <<>>
  /\ DocAx \in DOMAIN changes
  /\ changes[DocAx].action = "PUT"
  /\ out.tx.path # DocAx

\* C5: events are emitted by commits only; a put that commits emits exactly
\* one change event with oldValue the body stored before and newValue the
\* body stored after, and so does a delete of a stored document (newValue
\* undefined).
C5_Step ==
  /\ NodeStep("put", "complete") =>
       /\ Len(out'.emitted) = 1
       /\ out'.emitted[1].oldValue = BodyOf(nodes, out'.tx.path)
       /\ out'.emitted[1].newValue = BodyOf(nodes', out'.tx.path)
  /\ (NodeStep("delete", "complete") /\ out'.tx.path \in DOMAIN nodes) =>
       /\ Len(out'.emitted) = 1
       /\ out'.emitted[1].oldValue = BodyOf(nodes, out'.tx.path)
       /\ out'.emitted[1].newValue = Undef
       /\ out'.tx.path \notin DOMAIN nodes'
  /\ out'.step # "complete" => out'.emitted = <<>>

C5_EventsFollowCommits == [][C5_Step]_vars

\* C6: a step of a put, delete or setRevisions whose promise is rejected
\* leaves the nodes as they were, emits no event and records no Change.
C6_RejectedHasNoEffect ==
  [][(/\ out'.store = "nodes"
      /\ out'.tx.kind \in {"put", "delete", "setRevisions"}
      /\ out'.tx.promise = "rejected") =>
       /\ nodes' = nodes
       /\ out'.emitted = <<>>
       /\ cq' = cq]_vars

\* q is a prefix of the string k.
IsStringPrefix(q, k) ==
  Len(q) <= Len(k) /\ \A i \in 1..Len(q) : k[i] = q[i]

\* C7: changesBelow(path) is fulfilled with the stored Change records whose
\* key has `path` as a string prefix: each of them once, in ascending key
\* order, and no other record.
C7_Step ==
  ChangeStep("changesBelow", "complete") =>
    LET found == out'.settled[1].value
        want  == {k \in DOMAIN changes : IsStringPrefix(out'.tx.path, k)}
    IN  /\ Fulfilled
        /\ Len(found) = Cardinality(want)
        /\ {found[i] : i \in 1..Len(found)} = {changes[k] : k \in want}
        /\ \A i \in 1..(Len(found) - 1) : KeyLess(found[i].path, found[i + 1].path)

C7_ChangesBelowIsPrefixScan == [][C7_Step]_vars

\* changesBelow("/a/") has returned the two changes below /a/ from a store
\* that also holds a key before them (/a) and a key after them (/b).
C7_Witness ==
  /\ out.step = "complete"
  /\ out.tx.kind = "changesBelow"
  /\ out.tx.path = DirA
  /\ Len(out.settled[1].value) = 2
  /\ {DocA, DocB} \subseteq DOMAIN changes

\* The running transaction on 'changes' is a _recordChange whose next
\* request is `op`.
RecordChangeAt(op) ==
  /\ cq # <<>>
  /\ Head(cq).kind = "_recordChange"
  /\ Head(cq).reqs # <<>>
  /\ Head(Head(cq).reqs).op = op
  /\ out'.step = "request"
  /\ out'.store = "changes"

\* The record a _recordChange writes is committed as it was copied: the put
\* writes it at its path and nowhere else, and the commit publishes it.
RecordIsStored ==
  /\ RecordChangeAt("put") =>
       LET req == Head(Head(cq).reqs)
       IN  /\ req.key = Head(cq).path
           /\ req.key \in DOMAIN cwork'
           /\ cwork'[req.key] = req.node
           /\ \A k \in AllPaths \ {req.key} : StoreGet(cwork', k) = StoreGet(cwork, k)
  /\ ChangeStep("_recordChange", "complete") =>
       /\ changes' = cwork
       /\ out'.tx.path \in DOMAIN changes'
       /\ \A k \in AllPaths \ {out'.tx.path} :
            StoreGet(changes', k) = StoreGet(changes, k)

\* C8: _recordChange merges: the record it writes for p has each field named
\* in attrs set to the value given and each field not named as the stored
\* Change of p had it (unset when there was none); it is the one record of p.
C8_Step ==
  /\ RecordChangeAt("get") =>
       LET tx  == Head(cq)
           old == StoreGet(changes, tx.path)
           new == Head(out'.tx.reqs).node
       IN  /\ Len(out'.tx.reqs) = 1
           /\ Head(out'.tx.reqs).op = "put"
           /\ new.path = tx.path
           /\ new.action =
                (IF "action" \in tx.attributes.has THEN tx.attributes.action
                 ELSE IF old # <<>> THEN old[1].action ELSE Undef)
           /\ new.conflict =
                (IF "conflict" \in tx.attributes.has THEN << heap[tx.attributes.obj] >>
                 ELSE IF old # <<>> THEN old[1].conflict ELSE <<>>)
  /\ RecordIsStored

C8_RecordChangeMerges == [][C8_Step]_vars

\* The Change of /a/x holds the conflict block of a setConflict and the
\* action of a later local put, which named the action only.
C8_Witness ==
  /\ out.step = "complete"
  /\ out.tx.kind = "_recordChange"
  /\ out.tx.by = "put"
  /\ DocAx \in DOMAIN changes
  /\ changes[DocAx].action = "PUT"
  /\ changes[DocAx].conflict # <<>>

IsConflict(e) == e.type = "conflict"

\* C9: a conflict event is emitted only by the commit of the record of a
\* setConflict call, once, carrying the path, the attributes of the call
\* (the conflict block that is now stored) and a resolve capability for this
\* path and these attributes; no other step, an abort included, emits one.
C9_Step ==
  /\ (\E i \in 1..Len(out'.emitted) : IsConflict(out'.emitted[i])) =>
       ChangeStep("_recordChange", "complete") /\ out'.tx.by = "setConflict"
  /\ (ChangeStep("_recordChange", "complete") /\ out'.tx.by = "setConflict") =>
       /\ Len(out'.emitted) = 1
       /\ IsConflict(out'.emitted[1])
       /\ out'.emitted[1].path = out'.tx.path
       /\ out'.tx.path \in DOMAIN changes'
       /\ changes'[out'.tx.path].conflict = << out'.emitted[1].attributes >>
       /\ out'.emitted[1].resolve \in caps' \ caps
       /\ out'.emitted[1].resolve.path = out'.tx.path
       /\ heap[out'.emitted[1].resolve.obj] = out'.emitted[1].attributes

C9_ConflictEventAfterCommit == [][C9_Step]_vars

\* A conflict event has been emitted for /a/y, whose conflict is stored.
C9_Witness ==
  /\ out.emitted # <<>>
  /\ out.emitted[1].type = "conflict"
  /\ out.emitted[1].path = DocAy
  /\ DocAy \in DOMAIN changes
  /\ changes[DocAy].conflict # <<>>

\* C10: resolve with a value other than "local" and "remote" throws and
\* writes nothing; resolve("local") or resolve("remote") sets the resolution
\* of the conflict's attributes to the value given and records them, and the
\* record that is committed holds the resolution given last; no stored
\* conflict ever holds another resolution.
C10_Step ==
  /\ (out'.arg # Undef /\ out'.arg \notin {"local", "remote"}) =>
       /\ out'.step = "throw"
       /\ changes' = changes /\ cwork' = cwork /\ cq' = cq /\ heap' = heap
  /\ out'.arg \in {"local", "remote"} =>
       /\ out'.step = "call"
       /\ cq' = Append(cq, out'.tx)
       /\ out'.tx.kind = "_recordChange"
       /\ out'.tx.attributes.has = {"conflict"}
       /\ heap'[out'.tx.attributes.obj].resolution = out'.arg
  /\ (RecordChangeAt("get") /\ Head(cq).by = "resolve") =>
       /\ Head(out'.tx.reqs).node.conflict = << heap[Head(cq).attributes.obj] >>
       /\ heap[Head(cq).attributes.obj].resolution \in {"local", "remote"}
  /\ RecordIsStored
  /\ \A k \in DOMAIN changes' :
       changes'[k].conflict # <<>> =>
         changes'[k].conflict[1].resolution \in {Undef, "local", "remote"}

C10_ResolveValidates == [][C10_Step]_vars

\* The record of resolve("local") is committed: the conflict of /a/x is
\* stored with resolution "local".
C10_Witness ==
  /\ out.step = "complete"
  /\ out.tx.kind = "_recordChange"
  /\ out.tx.by = "resolve"
  /\ DocAx \in DOMAIN changes
  /\ changes[DocAx].conflict # <<>>
  /\ changes[DocAx].conflict[1].resolution = "local"

\* C11: every stored Change record is the record of a pending local
\* mutation: it has an action, PUT or DELETE; a setConflict, or a resolve
\* that follows a clearChange, leaves no record of its own.
C11_ChangesArePendingMutations ==
  \A k \in DOMAIN changes : changes[k].action \in {"PUT", "DELETE"}

\* C12: when reset calls its callback, no node and no Change is stored and
\* the instance holds an open connection, another one than it held before;
\* no call on the store throws after that.
C12_Step ==
  /\ (/\ out'.store = "open"
      /\ out'.tx.kind = "reset"
      /\ out'.settled # <<>>) =>
       /\ nodes' = EmptyStore
       /\ changes' = EmptyStore
       /\ db'.state = "open"
       /\ db'.conn # db.conn
  /\ (/\ out'.store = "nodes"
      /\ out'.step = "throw") =>
       \A i \in 1..Len(opens) : opens[i].by = "reset" => opens[i].reported = <<>>

C12_ResetLeavesUsableStore == [][C12_Step]_vars

\* C13: no call of open passes a second outcome to its callback.
C13_OneOutcomePerOpen ==
  \A i \in 1..Len(opens) : Len(opens[i].reported) <= 1

\* C14: a step that reports the failure of the open of _rs_init (the error
\* of the request, whatever its name, or the timeout) emits an error.
C14_OpenFailureEmitsError ==
  [][(/\ out'.store = "open"
      /\ out'.tx.kind = "_rs_init"
      /\ out'.step \in {"error", "timeout"}) =>
       \E i \in 1..Len(out'.emitted) : out'.emitted[i].type = "error"]_vars

\* C15: set with a value that is neither undefined, a string nor a buffer
\* reports the error to cb and hands no request to the platform.
C15_InvalidValueIssuesNoRequest ==
  [][(/\ out'.store = "transport"
      /\ out'.step = "call"
      /\ out'.tx.kind = "set"
      /\ out'.tx.body \notin {"undefined", "string", "ArrayBuffer"}) =>
       /\ out'.settled # <<>>
       /\ ajax' = ajax]_vars

\* The ancestors of a path: each directory above it, with the name of the
\* child that leads to the path.
RECURSIVE AncestorLinks(_)
AncestorLinks(p) ==
  LET parts == Match(p)
  IN  IF parts.ok
      THEN {<<parts.dirname, parts.basename>>} \cup AncestorLinks(parts.dirname)
      ELSE {}

\* Every ancestor of p is stored with the child that leads to p in maps[key].
Linked(store, p, key) ==
  \A link \in AncestorLinks(p) :
    /\ link[1] \in DOMAIN store
    /\ link[2] \in store[link[1]].maps[key]

\* The maps of a directory as a store holds them (empty when it has no node).
MapsOf(store, d) == IF d \in DOMAIN store THEN store[d].maps ELSE NoMaps

\* C16: when setRevisions commits, every pair's path has its node with the
\* revision given and its name in the `cached` map of its folder, and so on
\* up the chain; when a put commits, the same holds of its path and the
\* `body` maps.
C16_Step ==
  /\ (NodeStep("setRevisions", "complete") /\ Fulfilled) =>
       \A i \in 1..Len(out'.tx.revs) :
         /\ out'.tx.revs[i][1] \in DOMAIN nodes'
         /\ nodes'[out'.tx.revs[i][1]].revision = out'.tx.revs[i][2]
         /\ Linked(nodes', out'.tx.revs[i][1], "cached")
  /\ (NodeStep("put", "complete") /\ Fulfilled) =>
       /\ out'.tx.path \in DOMAIN nodes'
       /\ Linked(nodes', out'.tx.path, "body")

C16_NoLostDirectoryUpdate == [][C16_Step]_vars

\* C17: no directory node other than the root is stored with both maps
\* empty.
C17_DirectoryNodesAreNonEmpty ==
  \A d \in DOMAIN nodes :
    (IsDirPath(d) /\ d # Root) => keepDirNode(nodes[d])

\* C18: every ancestor directory of a stored node other than the root is
\* stored, with the child that leads to the node in its `body` map or in
\* its `cached` map.
C18_AncestorsAreLinked ==
  \A p \in DOMAIN nodes \ {Root} :
    \A link \in AncestorLinks(p) :
      /\ link[1] \in DOMAIN nodes
      /\ link[2] \in nodes[link[1]].maps["body"] \cup nodes[link[1]].maps["cached"]

\* The store after the name of p is taken out of the `body` map of its
\* folder, a folder left with both maps empty is removed and the removal is
\* carried on one level up, up to the first folder that is not left empty,
\* the root being kept whatever its maps.
RECURSIVE PrunedAbove(_, _)
PrunedAbove(store, p) ==
  LET parts == Match(p)
      d     == parts.dirname
      node  == [store[d] EXCEPT !.maps["body"] = @ \ {parts.basename}]
  IN  IF ~parts.ok \/ d \notin DOMAIN store THEN store
      ELSE IF keepDirNode(node) \/ d = Root THEN StorePut(store, node)
      ELSE PrunedAbove(StoreDelete(store, d), d)

\* C19: a delete of p that commits leaves the `cached` map of every
\* directory that stays as it was, and the store is the one before it
\* without the node of p and pruned above p: the name of p is out of the
\* `body` map of its folder, the folders that this empties are removed up
\* to the first that is not empty, and the root node stays stored.
C19_Step ==
  NodeStep("delete", "complete") =>
    /\ \A d \in DirPaths \cap DOMAIN nodes' :
         nodes'[d].maps["cached"] = MapsOf(nodes, d)["cached"]
    /\ nodes' = PrunedAbove(StoreDelete(nodes, out'.tx.path), out'.tx.path)
    /\ Root \in DOMAIN nodes => Root \in DOMAIN nodes'

C19_DeletePrunesUpToRoot == [][C19_Step]_vars

\* C20: a put that commits leaves every ancestor directory of its path
\* stored with the child that leads to the path in its `body` map; and when
\* the same put had committed before (the path holds this body and content
\* type and its ancestors are so linked), no directory node is added or
\* removed and the `body` and `cached` maps of every directory are as they
\* were.
C20_Step ==
  (NodeStep("put", "complete") /\ Fulfilled) =>
    /\ Linked(nodes', out'.tx.path, "body")
    /\ (/\ Content(nodes, out'.tx.path) = << out'.tx.body, out'.tx.contentType >>
        /\ Linked(nodes, out'.tx.path, "body")) =>
         \A d \in DirPaths :
           /\ d \in DOMAIN nodes' <=> d \in DOMAIN nodes
           /\ MapsOf(nodes', d) = MapsOf(nodes, d)

C20_PutLinksAncestorsOnce == [][C20_Step]_vars

\* put("/a/b/x", "hello") has committed a second time: /a/b/, /a/ and / are
\* stored with x, b/ and a/ in their `body` maps.
C20_Witness ==
  /\ out.step = "complete"
  /\ out.store = "nodes"
  /\ out.tx.kind = "put"
  /\ out.tx.path = DocABx
  /\ out.tx.oldNode # <<>>
  /\ out.tx.oldNode[1].body = out.tx.body
  /\ {Root, DirA, DirAB} \subseteq DOMAIN nodes
  /\ nodes[DirAB].maps["body"] = {<<"x">>}
  /\ nodes[DirA].maps["body"] = {<<"b", "/">>}
  /\ nodes[Root].maps["body"] = {<<"a", "/">>}

\* C21: a delete of p that commits leaves the revision of every other path
\* as it was: what getRevision(q) returns for q # p is the same after it as
\* before it, for the documents and for the directories, the ancestors of p
\* included.
C21_DeleteKeepsOtherRevisions ==
  [][NodeStep("delete", "complete") =>
       \A q \in AllPaths \ {out'.tx.path} :
         RevisionOf(nodes', q) = RevisionOf(nodes, q)]_vars

\* The transaction that runs on 'changes' stays at the head of its queue
\* until it is finished, the ones that wait keep their places, and a new
\* one is put behind them.
ChangesRunInOrder ==
  /\ Len(cq') < Len(cq) => cq' = Tail(cq)
  /\ Len(cq') >= Len(cq) => \A i \in 2..Len(cq) : cq'[i] = cq[i]
  /\ Len(cq') <= Len(cq) + 1

\* C22: the change log follows the order in which the local puts and
\* deletes were issued.  The commit of one of them delivers its change event
\* before that of any call issued later (all of which are still waiting),
\* and, in the step that fulfils its result, puts the record of its change
\* behind every record made before.  The records run in that order, one at
\* a time, and the one that commits sets the action of the Change to that
\* of its call: when all have completed the Change has the action of the
\* call issued last.  A changesBelow is put behind the records made before
\* it was started, completes when it is at the head, and is fulfilled with
\* the committed Change of each path below its own.
C22_Step ==
  /\ (/\ out'.store = "nodes"
      /\ out'.step = "complete"
      /\ out'.tx.kind \in {"put", "delete"}
      /\ ~out'.tx.incoming) =>
       /\ out'.tx.seq > 0
       /\ \A i \in 1..Len(txq') : out'.tx.seq < txq'[i].seq
       /\ \A i \in 1..Len(out'.emitted) : out'.emitted[i].path = out'.tx.path
       /\ Len(cq') = Len(cq) + 1
       /\ cq'[Len(cq')].kind = "_recordChange"
       /\ cq'[Len(cq')].path = out'.tx.path
       /\ cq'[Len(cq')].attributes.action =
            (IF out'.tx.kind = "put" THEN "PUT" ELSE "DELETE")
  /\ ChangesRunInOrder
  /\ (ChangeStep("_recordChange", "complete") /\ out'.tx.by \in {"put", "delete"}) =>
       /\ cq # <<>> /\ Head(cq).path = out'.tx.path /\ Head(cq).by = out'.tx.by
       /\ out'.tx.path \in DOMAIN changes'
       /\ changes'[out'.tx.path].action = out'.tx.attributes.action
  /\ (out'.store = "changes" /\ out'.step = "call" /\ out'.tx.kind = "changesBelow") =>
       cq' = Append(cq, out'.tx)
  /\ ChangeStep("changesBelow", "complete") =>
       /\ cq # <<>> /\ Head(cq).kind = "changesBelow" /\ Head(cq).path = out'.tx.path
       /\ Fulfilled
       /\ \A k \in DOMAIN changes :
            IsStringPrefix(out'.tx.path, k) =>
              \E i \in 1..Len(out'.settled[1].value) :
                out'.settled[1].value[i] = changes[k]

C22_ChangeLogFollowsIssueOrder == [][C22_Step]_vars

\* A put and then a delete of /a/x were issued back to back; the record of
\* the delete, the call issued last, has committed over that of the put.
C22_Witness ==
  /\ out.step = "complete"
  /\ out.store = "changes"
  /\ out.tx.kind = "_recordChange"
  /\ out.tx.by = "delete"
  /\ ncalls = 2
  /\ txq = <<>>
  /\ cq = <<>>
  /\ DocAx \in DOMAIN changes
  /\ changes[DocAx].action = "DELETE"
  /\ DocAx \notin DOMAIN nodes

=============================================================================
